---------------------------- MODULE Spec2Model ----------------------------
(***************************************************************************)
(* A model of bmark-importer (cmd/bmark-importer/bmark-importer.go): the   *)
(* HTML bookmark import pipeline (parser goroutine, worker pool, closer    *)
(* goroutine, coordinator loop) over the three-table SQLite store, and the *)
(* export writer.                                                          *)
(*                                                                         *)
(* Text is a sequence of one-character strings, so that splitting,         *)
(* pattern matching, escaping and unescaping are computed character by     *)
(* character the way the Go code computes them.                            *)
(***************************************************************************)
EXTENDS Integers, Sequences, FiniteSets, Bags, TLC

(***************************************************************************)
(* Bounds of the model.                                                    *)
(***************************************************************************)
\* Entry blocks (<DT> markers) read over all the imports of one behaviour.
MaxEntries == 2
\* Storage failures injected over one behaviour.
MaxFaults == 1

\* workerCount := 5
workerCount == 5
\* The pool sizes tried: one worker, fewer workers than candidates or as
\* many, and the pool of the code.  With at most three candidates a pool of
\* three or four behaves as the pool of five with its other workers idle.
PoolSizes == {1, 2, workerCount}

----------------------------------------------------------------------------
(***************************************************************************)
(* Text literals of the source.                                            *)
(***************************************************************************)
sDT == <<"<", "D", "T", ">">>
sDD == <<"<", "D", "D", ">">>
sAnchorOpen == <<"<", "A">>
sAnchorClose == <<"<", "/", "A", ">">>
sHref == <<"H", "R", "E", "F", "=", "\"">>
sAddDate == <<"A", "D", "D", "_", "D", "A", "T", "E", "=", "\"">>
sLastMod == <<"L", "A", "S", "T", "_", "M", "O", "D", "I", "F", "I", "E", "D", "=", "\"">>
sTags == <<"T", "A", "G", "S", "=", "\"">>
sQuote == <<"\"">>
sComma == <<",">>
sNewline == <<"\n">>
sAmp == <<"&", "a", "m", "p", ";">>
sLt == <<"&", "l", "t", ";">>
sGt == <<"&", "g", "t", ";">>
sQuot == <<"&", "q", "u", "o", "t", ";">>
sApos == <<"&", "#", "3", "9", ";">>
sNum34 == <<"&", "#", "3", "4", ";">>

Digits == <<"0", "1", "2", "3", "4", "5", "6", "7", "8", "9">>
LowerCase == <<"a", "b", "c", "d", "e", "f", "g", "h", "i", "j", "k", "l", "m",
               "n", "o", "p", "q", "r", "s", "t", "u", "v", "w", "x", "y", "z">>
UpperCase == <<"A", "B", "C", "D", "E", "F", "G", "H", "I", "J", "K", "L", "M",
               "N", "O", "P", "Q", "R", "S", "T", "U", "V", "W", "X", "Y", "Z">>
\* The regexp class \s and the ASCII part of unicode.IsSpace.
ReSpace == {"\t", "\n", "\f", "\r", " "}

Range(s) == {s[k] : k \in 1..Len(s)}
DigitSet == Range(Digits)
LowerSet == Range(LowerCase)
IsDigit(c) == c \in DigitSet
DigitValue(c) == (CHOOSE k \in 1..10 : Digits[k] = c) - 1
\* Case folding of the (?i) flag, on ASCII letters.
FoldTable ==
  [c \in LowerSet |-> UpperCase[CHOOSE k \in 1..26 : LowerCase[k] = c]]
Fold(c) == IF c \in LowerSet THEN FoldTable[c] ELSE c

Min(S) == CHOOSE x \in S : \A y \in S : x <= y
Max(S) == CHOOSE x \in S : \A y \in S : x >= y

----------------------------------------------------------------------------
(***************************************************************************)
(* The Go string functions the importer calls.                             *)
(***************************************************************************)
\* s[i:] starts with p.
HasPrefixAt(s, i, p) ==
  /\ i >= 1
  /\ i + Len(p) - 1 <= Len(s)
  /\ \A k \in 1..Len(p) : s[i + k - 1] = p[k]

\* s[i:] starts with p, letters compared case-insensitively.
HasPrefixFoldAt(s, i, p) ==
  /\ i >= 1
  /\ i + Len(p) - 1 <= Len(s)
  /\ \A k \in 1..Len(p) : Fold(s[i + k - 1]) = Fold(p[k])

\* The first index at or after i where p occurs in s; 0 when there is none.
IndexFrom(s, p, i) ==
  LET hits == {j \in i..Len(s) : HasPrefixAt(s, j, p)}
  IN IF hits = {} THEN 0 ELSE Min(hits)

\* The first index at or after i of a character for which Stop holds, or
\* Len(s) + 1.
ScanTo(s, i, Stop(_)) ==
  LET hits == {j \in i..Len(s) : Stop(s[j])}
  IN IF hits = {} THEN Len(s) + 1 ELSE Min(hits)

\* strings.Split(s, sep), sep not empty.
RECURSIVE Split(_, _)
Split(s, sep) ==
  LET j == IndexFrom(s, sep, 1)
  IN IF j = 0
       THEN <<s>>
       ELSE <<SubSeq(s, 1, j - 1)>> \o Split(SubSeq(s, j + Len(sep), Len(s)), sep)

\* strings.TrimSpace(s).
TrimSpace(s) ==
  LET keep == {j \in 1..Len(s) : s[j] \notin ReSpace}
  IN IF keep = {} THEN <<>> ELSE SubSeq(s, Min(keep), Max(keep))

\* strings.ReplaceAll(s, old, new), old not empty: non-overlapping
\* occurrences, left to right.
RECURSIVE ReplaceAll(_, _, _)
ReplaceAll(s, old, new) ==
  IF s = <<>> THEN <<>>
  ELSE IF HasPrefixAt(s, 1, old)
    THEN new \o ReplaceAll(SubSeq(s, Len(old) + 1, Len(s)), old, new)
    ELSE <<s[1]>> \o ReplaceAll(Tail(s), old, new)

\* htmlUnescape: the five replacements, applied one after the other in the
\* order of the table.
htmlUnescape(s) ==
  LET s1 == ReplaceAll(s, sAmp, <<"&">>)
      s2 == ReplaceAll(s1, sLt, <<"<">>)
      s3 == ReplaceAll(s2, sGt, <<">">>)
      s4 == ReplaceAll(s3, sQuot, <<"\"">>)
  IN ReplaceAll(s4, sApos, <<"'">>)

\* html.EscapeString of Go's standard library: & ' < > " become
\* &amp; &#39; &lt; &gt; &#34;.
EscapeChar(c) ==
  CASE c = "&"  -> sAmp
    [] c = "'"  -> sApos
    [] c = "<"  -> sLt
    [] c = ">"  -> sGt
    [] c = "\"" -> sNum34
    [] OTHER    -> <<c>>

RECURSIVE EscapeString(_)
EscapeString(s) ==
  IF s = <<>> THEN <<>> ELSE EscapeChar(s[1]) \o EscapeString(Tail(s))

\* The texts of a list, one after the other.
RECURSIVE Concat(_)
Concat(ss) == IF ss = <<>> THEN <<>> ELSE ss[1] \o Concat(Tail(ss))

\* strings.Join(elems, sep).
RECURSIVE Join(_, _)
Join(elems, sep) ==
  IF elems = <<>> THEN <<>>
  ELSE IF Len(elems) = 1 THEN elems[1]
  ELSE elems[1] \o sep \o Join(Tail(elems), sep)

----------------------------------------------------------------------------
(***************************************************************************)
(* Integers as text: strconv.ParseInt(s, 10, 64) on a run of digits, and   *)
(* the %d verb of fmt.                                                     *)
(***************************************************************************)
sMaxInt64 == <<"9", "2", "2", "3", "3", "7", "2", "0", "3", "6",
               "8", "5", "4", "7", "7", "5", "8", "0", "7">>

\* The digits of s without leading zeros.
StripZeros(s) ==
  LET nz == {j \in 1..Len(s) : s[j] # "0"}
  IN IF nz = {} THEN <<>> ELSE SubSeq(s, Min(nz), Len(s))

\* Digit strings of the same length, compared as numbers.
RECURSIVE DigitsGreater(_, _)
DigitsGreater(a, b) ==
  IF a = <<>> THEN FALSE
  ELSE IF a[1] # b[1] THEN DigitValue(a[1]) > DigitValue(b[1])
  ELSE DigitsGreater(Tail(a), Tail(b))

RECURSIVE DigitsValue(_)
DigitsValue(s) ==
  IF s = <<>> THEN 0
  ELSE 10 * DigitsValue(SubSeq(s, 1, Len(s) - 1)) + DigitValue(s[Len(s)])

\* ParseInt fails (value out of range) above 2^63 - 1.
ParseIntFails(s) ==
  LET d == StripZeros(s)
  IN \/ Len(d) > Len(sMaxInt64)
     \/ Len(d) = Len(sMaxInt64) /\ DigitsGreater(d, sMaxInt64)

RECURSIVE FormatNat(_)
FormatNat(n) ==
  IF n < 10 THEN <<Digits[n + 1]>>
  ELSE FormatNat(n \div 10) \o <<Digits[(n % 10) + 1]>>

\* fmt's %d.
FormatInt(n) == IF n < 0 THEN <<"-">> \o FormatNat(0 - n) ELSE FormatNat(n)

----------------------------------------------------------------------------
(***************************************************************************)
(* The regular expressions of parseBlocks.  FindStringSubmatch returns the *)
(* leftmost match; NoMatch stands for the nil result.                      *)
(***************************************************************************)
NoMatch == [found |-> FALSE]

IsGt(c) == c = ">"
IsLt(c) == c = "<"
IsQuote(c) == c = "\""
IsNewline(c) == c = "\n"
NotSpace(c) == c \notin ReSpace
NotDigit(c) == ~IsDigit(c)

\* (?i)<A\s+([^>]+)>(.*?)</A> tried at index i of s.  \s+ is greedy and gives
\* one character back to [^>]+ only when it must; [^>]+ runs to the first
\* ">"; .*? is lazy and does not match a newline.
reAnchorAt(s, i) ==
  IF ~HasPrefixFoldAt(s, i, sAnchorOpen) THEN NoMatch
  ELSE
    LET ws == i + 2
        p  == ScanTo(s, ws, NotSpace)
        q  == ScanTo(s, p, IsGt)
        a  == IF q = p THEN p - 1 ELSE p
        closes == {e \in (q + 1)..Len(s) : HasPrefixFoldAt(s, e, sAnchorClose)}
        e  == Min(closes)
    IN IF p = ws \/ q > Len(s) \/ (q = p /\ p - ws < 2) \/ closes = {}
         THEN NoMatch
       ELSE IF \E k \in (q + 1)..(e - 1) : s[k] = "\n"
         THEN NoMatch
       ELSE [found |-> TRUE, attr |-> SubSeq(s, a, q - 1),
             inner |-> SubSeq(s, q + 1, e - 1)]

reAnchor(s) ==
  LET hits == {i \in 1..Len(s) : reAnchorAt(s, i).found}
  IN IF hits = {} THEN NoMatch ELSE reAnchorAt(s, Min(hits))

\* NAME="([^"]+)" for the literal `NAME="` in open: HREF and TAGS.
reQuotedAt(s, i, open) ==
  IF ~HasPrefixAt(s, i, open) THEN NoMatch
  ELSE
    LET p == i + Len(open)
        q == ScanTo(s, p, IsQuote)
    IN IF q = p \/ q > Len(s) THEN NoMatch
       ELSE [found |-> TRUE, group |-> SubSeq(s, p, q - 1)]

reQuoted(s, open) ==
  LET hits == {i \in 1..Len(s) : reQuotedAt(s, i, open).found}
  IN IF hits = {} THEN NoMatch ELSE reQuotedAt(s, Min(hits), open)

\* NAME="(\d+)": ADD_DATE and LAST_MODIFIED.
reNumberAt(s, i, open) ==
  IF ~HasPrefixAt(s, i, open) THEN NoMatch
  ELSE
    LET p == i + Len(open)
        q == ScanTo(s, p, NotDigit)
    IN IF q = p \/ q > Len(s) \/ s[q] # "\"" THEN NoMatch
       ELSE [found |-> TRUE, group |-> SubSeq(s, p, q - 1)]

reNumber(s, open) ==
  LET hits == {i \in 1..Len(s) : reNumberAt(s, i, open).found}
  IN IF hits = {} THEN NoMatch ELSE reNumberAt(s, Min(hits), open)

\* (?i)<DD>([^<]+)
reDescAt(s, i) ==
  IF ~HasPrefixFoldAt(s, i, sDD) THEN NoMatch
  ELSE
    LET p == i + Len(sDD)
        q == ScanTo(s, p, IsLt)
    IN IF q = p THEN NoMatch
       ELSE [found |-> TRUE, group |-> SubSeq(s, p, q - 1)]

reDesc(s) ==
  LET hits == {i \in 1..Len(s) : reDescAt(s, i).found}
  IN IF hits = {} THEN NoMatch ELSE reDescAt(s, Min(hits))

----------------------------------------------------------------------------
(***************************************************************************)
(* The extract functions and the body of the loop of parseBlocks.          *)
(***************************************************************************)
\* extractHref that decodes the character escapes of the value.
extractHrefDecoded(attrStr) ==
  LET m == reQuoted(attrStr, sHref)
  IN IF m.found THEN htmlUnescape(m.group) ELSE <<>>

extractHref(attrStr) ==
  LET m == reQuoted(attrStr, sHref)
  IN IF m.found THEN m.group ELSE <<>>

\* extractTimestamp that takes 0 for a value of digits ParseInt rejects.
extractTimestampUnchecked(open, attrStr, defaultValue) ==
  LET m == reNumber(attrStr, open)
  IN IF m.found
       THEN (IF ParseIntFails(m.group) THEN 0 ELSE DigitsValue(m.group))
       ELSE defaultValue

extractTimestamp(open, attrStr, defaultValue) ==
  LET m == reNumber(attrStr, open)
  IN IF m.found /\ ~ParseIntFails(m.group)
       THEN DigitsValue(m.group)
       ELSE defaultValue

\* extractTags without its cleaning loop: the pieces as strings.Split gives
\* them.
RawTags(tags) == tags

\* The tags of the list that are not empty once trimmed, in order.
RECURSIVE CleanTags(_)
CleanTags(tags) ==
  IF tags = <<>> THEN <<>>
  ELSE LET tag == TrimSpace(tags[1])
       IN IF tag # <<>> THEN <<tag>> \o CleanTags(Tail(tags))
                        ELSE CleanTags(Tail(tags))

extractTags(attrStr) ==
  LET m == reQuoted(attrStr, sTags)
  IN IF m.found THEN CleanTags(Split(m.group, sComma)) ELSE <<>>

extractDescription(block) ==
  LET m == reDesc(block)
  IN IF m.found THEN htmlUnescape(TrimSpace(m.group)) ELSE <<>>

NoJob == [ok |-> FALSE]

\* The loop of parseBlocks without the check of uri: a block whose anchor has
\* no address yields a Job with an empty URI.
parseBlockNoSkip(rawBlock, unixNow) ==
  LET block == TrimSpace(rawBlock)
      anchorMatch == reAnchor(block)
  IN IF block = <<>> \/ ~anchorMatch.found THEN NoJob
     ELSE
       LET attrStr == anchorMatch.attr
           createdAt == extractTimestamp(sAddDate, attrStr, unixNow)
       IN [ok |-> TRUE, URI |-> extractHref(attrStr),
           Title |-> htmlUnescape(TrimSpace(anchorMatch.inner)),
           Note |-> extractDescription(block),
           CreatedAt |-> createdAt,
           UpdatedAt |-> extractTimestamp(sLastMod, attrStr, createdAt),
           Tags |-> extractTags(attrStr)]

\* One iteration of the loop of parseBlocks: the Job the block yields, or
\* NoJob when the block is skipped.
parseBlock(rawBlock, unixNow) ==
  LET block == TrimSpace(rawBlock)
      anchorMatch == reAnchor(block)
  IN IF block = <<>> \/ ~anchorMatch.found THEN NoJob
     ELSE
       LET attrStr == anchorMatch.attr
           title == htmlUnescape(TrimSpace(anchorMatch.inner))
           uri == extractHref(attrStr)
           createdAt == extractTimestamp(sAddDate, attrStr, unixNow)
           updatedAt == extractTimestamp(sLastMod, attrStr, createdAt)
       IN IF uri = <<>> THEN NoJob
          ELSE [ok |-> TRUE, URI |-> uri, Title |-> title,
                Note |-> extractDescription(block),
                CreatedAt |-> createdAt, UpdatedAt |-> updatedAt,
                Tags |-> extractTags(attrStr)]

\* parseBlocks: the Jobs it sends, in order, when the iterations of its loop
\* yield ps.
RECURSIVE Candidates(_)
Candidates(ps) ==
  IF ps = <<>> THEN <<>>
  ELSE (IF ps[1].ok THEN <<ps[1]>> ELSE <<>>) \o Candidates(Tail(ps))

----------------------------------------------------------------------------
(***************************************************************************)
(* The store: the three tables of initializeDatabase, each a set of rows,  *)
(* and the connection's last insert rowid (SetMaxOpenConns(1): there is    *)
(* one connection).  A row's id is its rowid.  schema is the set of the     *)
(* tables and indexes that exist.                                          *)
(***************************************************************************)
\* initializeDatabase: the objects its statements create, in their order.
schemaTables == <<"bookmarks", "tags", "bookmark_tags">>
schemaIndexes == <<"idx_url", "idx_tag", "idx_bookmark_id", "idx_tag_id">>

\* The store once initializeDatabase has returned nil, without rows.
EmptyDB ==
  [bookmarks |-> {}, tags |-> {}, bookmark_tags |-> {}, lastInsertRowid |-> 0,
   schema |-> Range(schemaTables) \cup Range(schemaIndexes)]

\* The database file sql.Open creates: no table, no index.
NewDB == [EmptyDB EXCEPT !.schema = {}]

\* DROP TABLE IF EXISTS before CREATE TABLE: the rows of the table are lost.
execDropCreate(d, name) ==
  IF name \in Range(schemaTables)
    THEN [d EXCEPT !.schema = @ \cup {name}, ![name] = {}]
    ELSE [d EXCEPT !.schema = @ \cup {name}]

\* db.Exec of CREATE TABLE IF NOT EXISTS name or CREATE INDEX IF NOT EXISTS
\* name: the object exists afterwards, the rows are as they were.
execCreate(d, name) == [d EXCEPT !.schema = @ \cup {name}]

\* The two loops of initializeDatabase over the statements stmts, of which
\* db.Exec fails at the failAt-th (none fails when failAt is 0): the store
\* it leaves and whether it returns an error.
RECURSIVE execEach(_, _, _)
execEach(d, stmts, failAt) ==
  IF stmts = <<>> THEN [db |-> d, err |-> FALSE]
  ELSE IF failAt = 1 THEN [db |-> d, err |-> TRUE]
  ELSE execEach(execCreate(d, Head(stmts)), Tail(stmts), failAt - 1)

initializeDatabase(d, failAt) ==
  execEach(d, schemaTables \o schemaIndexes, failAt)

\* The rowid SQLite gives a new row of an INTEGER PRIMARY KEY table.
NextRowid(rows) == IF rows = {} THEN 1 ELSE Max({r.id : r \in rows}) + 1

\* INSERT INTO bookmarks with no UNIQUE constraint on url: a row is always
\* added.
InsertBookmark(d, uri, title, note, createdAt, updatedAt) ==
  LET id == NextRowid(d.bookmarks)
      row == [id |-> id, url |-> uri, title |-> title, note |-> note,
              created_at |-> createdAt, updated_at |-> updatedAt]
  IN [db |-> [d EXCEPT !.bookmarks = @ \cup {row}, !.lastInsertRowid = id],
      rowsAffected |-> 1]

\* INSERT ... ON CONFLICT (url) DO UPDATE: a conflicting row keeps its id and
\* takes the new title, note and timestamps.
InsertOrUpdateBookmark(d, uri, title, note, createdAt, updatedAt) ==
  IF \E r \in d.bookmarks : r.url = uri
    THEN LET old == CHOOSE r \in d.bookmarks : r.url = uri
             row == [id |-> old.id, url |-> uri, title |-> title,
                     note |-> note, created_at |-> createdAt,
                     updated_at |-> updatedAt]
         IN [db |-> [d EXCEPT !.bookmarks = (@ \ {old}) \cup {row},
                              !.lastInsertRowid = old.id],
             rowsAffected |-> 1]
    ELSE LET id == NextRowid(d.bookmarks)
             row == [id |-> id, url |-> uri, title |-> title, note |-> note,
                     created_at |-> createdAt, updated_at |-> updatedAt]
         IN [db |-> [d EXCEPT !.bookmarks = @ \cup {row},
                              !.lastInsertRowid = id],
             rowsAffected |-> 1]

\* INSERT OR IGNORE INTO bookmarks (url, title, note, created_at, updated_at):
\* url is UNIQUE, a conflicting row is skipped.
InsertOrIgnoreBookmark(d, uri, title, note, createdAt, updatedAt) ==
  IF \E r \in d.bookmarks : r.url = uri
    THEN [db |-> d, rowsAffected |-> 0]
    ELSE LET id == NextRowid(d.bookmarks)
             row == [id |-> id, url |-> uri, title |-> title, note |-> note,
                     created_at |-> createdAt, updated_at |-> updatedAt]
         IN [db |-> [d EXCEPT !.bookmarks = @ \cup {row},
                              !.lastInsertRowid = id],
             rowsAffected |-> 1]

\* INSERT OR IGNORE INTO tags (tag): tag is UNIQUE.
InsertOrIgnoreTag(d, tag) ==
  IF \E r \in d.tags : r.tag = tag
    THEN d
    ELSE LET id == NextRowid(d.tags)
         IN [d EXCEPT !.tags = @ \cup {[id |-> id, tag |-> tag]},
                      !.lastInsertRowid = id]

\* INSERT INTO bookmark_tags with no key on the pair: a row is always added.
InsertLink(d, bookmarkID, tagID) ==
  LET id == NextRowid(d.bookmark_tags)
  IN [d EXCEPT !.bookmark_tags =
                  @ \cup {[id |-> id, bookmark_id |-> bookmarkID,
                           tag_id |-> tagID]},
               !.lastInsertRowid = id]

\* INSERT OR IGNORE INTO bookmark_tags (bookmark_id, tag_id): the pair is the
\* primary key.  Foreign keys are not enforced (the connection does not turn
\* them on).
InsertOrIgnoreLink(d, bookmarkID, tagID) ==
  IF \E r \in d.bookmark_tags : r.bookmark_id = bookmarkID /\ r.tag_id = tagID
    THEN d
    ELSE LET id == NextRowid(d.bookmark_tags)
         IN [d EXCEPT !.bookmark_tags =
                         @ \cup {[id |-> id, bookmark_id |-> bookmarkID,
                                  tag_id |-> tagID]},
                      !.lastInsertRowid = id]

\* tx.Rollback(): the tables are those of before the transaction; SQLite does
\* not restore the last insert rowid.
Rollback(before, after) ==
  [before EXCEPT !.lastInsertRowid = after.lastInsertRowid]

\* Where a storage failure is injected into a transaction: nowhere, at
\* db.Begin, at an Exec (of tag number at, in insertTags), at tx.Commit.
NoFault == [kind |-> "none", at |-> 0]
BookmarkFaults ==
  {[kind |-> k, at |-> 0] : k \in {"begin", "exec", "commit"}}
TagsFaults(tags) ==
  {[kind |-> k, at |-> 0] : k \in {"begin", "commit"}}
    \cup {[kind |-> "exec", at |-> k] : k \in 1..Len(tags)}

\* insertBookmark with INSERT OR REPLACE: the row of the address is deleted
\* and a new one inserted.
insertOrReplaceBookmark(d, uri, title, note, createdAt, updatedAt, fault) ==
  LET others == [d EXCEPT !.bookmarks = {r \in @ : r.url # uri}]
      res == InsertOrIgnoreBookmark(others, uri, title, note, createdAt,
                                    updatedAt)
  IN IF fault.kind # "none"
       THEN [db |-> d, bookmarkID |-> 0, err |-> fault.kind]
       ELSE [db |-> res.db, bookmarkID |-> res.db.lastInsertRowid,
             err |-> "nil"]

\* insertBookmark that returns res.LastInsertId() whether or not a row was
\* inserted.
insertBookmarkLastId(d, uri, title, note, createdAt, updatedAt, fault) ==
  LET res == InsertOrIgnoreBookmark(d, uri, title, note, createdAt, updatedAt)
  IN IF fault.kind # "none"
       THEN [db |-> d, bookmarkID |-> 0, err |-> fault.kind]
       ELSE [db |-> res.db, bookmarkID |-> res.db.lastInsertRowid,
             err |-> "nil"]

\* insertBookmark as one transaction: the store after it, the id it returns
\* and its error ("nil" for none).
insertBookmark(d, uri, title, note, createdAt, updatedAt, fault) ==
  IF fault.kind \in {"begin", "exec"}
    THEN [db |-> d, bookmarkID |-> 0, err |-> fault.kind]
  ELSE
    LET res == InsertOrIgnoreBookmark(d, uri, title, note, createdAt, updatedAt)
        ids == {r.id : r \in {x \in res.db.bookmarks : x.url = uri}}
    IN IF res.rowsAffected = 0 /\ ids = {}
         THEN [db |-> Rollback(d, res.db), bookmarkID |-> 0, err |-> "norows"]
       ELSE IF fault.kind = "commit"
         THEN [db |-> Rollback(d, res.db), bookmarkID |-> 0, err |-> "commit"]
       ELSE [db |-> res.db,
             bookmarkID |-> IF res.rowsAffected > 0
                              THEN res.db.lastInsertRowid
                              ELSE CHOOSE id \in ids : TRUE,
             err |-> "nil"]

\* The loop of insertTags without the SELECT before the insert: the id is
\* the connection's last insert rowid also when the insert was ignored, and
\* the fallback SELECT runs only when that is 0.
RECURSIVE tagsLoopLastId(_, _, _, _, _)
tagsLoopLastId(d, bookmarkID, tagList, k, fault) ==
  IF k > Len(tagList) THEN [db |-> d, err |-> "nil"]
  ELSE IF tagList[k] = <<>>
    THEN tagsLoopLastId(d, bookmarkID, tagList, k + 1, fault)
  ELSE
    LET tag == tagList[k]
        d1 == InsertOrIgnoreTag(d, tag)
        again == {r.id : r \in {x \in d1.tags : x.tag = tag}}
        tagID == IF d1.lastInsertRowid # 0 THEN d1.lastInsertRowid
                 ELSE CHOOSE id \in again : TRUE
    IN IF fault.kind = "exec" /\ fault.at = k
         THEN [db |-> d1, err |-> "exec"]
       ELSE tagsLoopLastId(InsertOrIgnoreLink(d1, bookmarkID, tagID),
                           bookmarkID, tagList, k + 1, fault)

\* The loop of insertTags with a plain INSERT INTO tags and no SELECT before
\* it: a label that is stored already fails the UNIQUE constraint.
RECURSIVE tagsLoopPlainInsert(_, _, _, _, _)
tagsLoopPlainInsert(d, bookmarkID, tagList, k, fault) ==
  IF k > Len(tagList) THEN [db |-> d, err |-> "nil"]
  ELSE IF tagList[k] = <<>>
    THEN tagsLoopPlainInsert(d, bookmarkID, tagList, k + 1, fault)
  ELSE IF \E r \in d.tags : r.tag = tagList[k]
    THEN [db |-> d, err |-> "exec"]
  ELSE
    LET d1 == InsertOrIgnoreTag(d, tagList[k])
    IN IF fault.kind = "exec" /\ fault.at = k
         THEN [db |-> d1, err |-> "exec"]
       ELSE tagsLoopPlainInsert(
              InsertOrIgnoreLink(d1, bookmarkID, d1.lastInsertRowid),
              bookmarkID, tagList, k + 1, fault)

\* The loop of insertTags from tag number k on, inside the transaction.
RECURSIVE tagsLoop(_, _, _, _, _)
tagsLoop(d, bookmarkID, tagList, k, fault) ==
  IF k > Len(tagList) THEN [db |-> d, err |-> "nil"]
  ELSE IF tagList[k] = <<>> THEN tagsLoop(d, bookmarkID, tagList, k + 1, fault)
  ELSE
    LET tag == tagList[k]
        found == {r.id : r \in {x \in d.tags : x.tag = tag}}
        d1 == IF found = {} THEN InsertOrIgnoreTag(d, tag) ELSE d
        again == {r.id : r \in {x \in d1.tags : x.tag = tag}}
        tagID == IF found # {} THEN CHOOSE id \in found : TRUE
                 ELSE IF d1.lastInsertRowid # 0 THEN d1.lastInsertRowid
                 ELSE IF again # {} THEN CHOOSE id \in again : TRUE
                 ELSE 0
    IN IF found = {} /\ d1.lastInsertRowid = 0 /\ again = {}
         THEN [db |-> d1, err |-> "norows"]
       ELSE IF fault.kind = "exec" /\ fault.at = k
         THEN [db |-> d1, err |-> "exec"]
       ELSE tagsLoop(InsertOrIgnoreLink(d1, bookmarkID, tagID),
                     bookmarkID, tagList, k + 1, fault)

\* insertTags that does not check the error of tx.Commit.
insertTagsCommitUnchecked(d, bookmarkID, tagList, fault) ==
  IF fault.kind = "begin" THEN [db |-> d, err |-> "begin"]
  ELSE
    LET res == tagsLoop(d, bookmarkID, tagList, 1, fault)
    IN IF res.err # "nil" THEN [db |-> Rollback(d, res.db), err |-> res.err]
       ELSE IF fault.kind = "commit"
         THEN [db |-> Rollback(d, res.db), err |-> "nil"]
       ELSE res

\* insertTags as one transaction: the store after it and its error.
insertTags(d, bookmarkID, tagList, fault) ==
  IF fault.kind = "begin" THEN [db |-> d, err |-> "begin"]
  ELSE
    LET res == tagsLoop(d, bookmarkID, tagList, 1, fault)
    IN IF res.err # "nil" THEN [db |-> Rollback(d, res.db), err |-> res.err]
       ELSE IF fault.kind = "commit"
         THEN [db |-> Rollback(d, res.db), err |-> "commit"]
       ELSE res

----------------------------------------------------------------------------
(***************************************************************************)
(* exportBookmarks: the text it writes.                                    *)
(***************************************************************************)
sHeader ==
  <<"<", "!", "D", "O", "C", "T", "Y", "P", "E", " ", "N", "E", "T", "S", "C", "A", "P", "E", "-", "B", "o", "o", "k", "m", "a", "r", "k", "-", "f", "i", "l", "e", "-", "1", ">", "\n">>
  \o <<"\n">>
  \o <<"<", "M", "E", "T", "A", " ", "H", "T", "T", "P", "-", "E", "Q", "U", "I", "V", "=", "\"", "C", "o", "n", "t", "e", "n", "t", "-", "T", "y", "p", "e", "\"", " ", "C", "O", "N", "T", "E", "N", "T", "=", "\"", "t", "e", "x", "t", "/", "h", "t", "m", "l", ";", " ", "c", "h", "a", "r", "s", "e", "t", "=", "U", "T", "F", "-", "8", "\"", ">", "\n">>
  \o <<"<", "T", "I", "T", "L", "E", ">", "B", "o", "o", "k", "m", "a", "r", "k", "s", "<", "/", "T", "I", "T", "L", "E", ">", "\n">>
  \o <<"<", "H", "1", ">", "B", "o", "o", "k", "m", "a", "r", "k", "s", "<", "/", "H", "1", ">", "\n">>
  \o <<"<", "D", "L", ">", "<", "p", ">", "\n">>
sFooter == <<"<", "/", "D", "L", ">", "<", "p", ">", "\n">>
sRowOpen == <<"<", "D", "T", ">", "<", "A", " ">>
sAddDateAttr == <<"\"", " ", "A", "D", "D", "_", "D", "A", "T", "E", "=", "\"">>
sLastModAttr == <<"\"", " ", "L", "A", "S", "T", "_", "M", "O", "D", "I", "F", "I", "E", "D", "=", "\"">>
sTagsAttr == <<" ", "T", "A", "G", "S", "=", "\"">>

\* The orders of the elements of a finite set.
Perms(S) ==
  {q \in [1..Cardinality(S) -> S] :
     \A i, j \in 1..Cardinality(S) : q[i] = q[j] => i = j}

\* The labels of the rows of tags in tagOrder that d links to the bookmark
\* row r, in that order.
RECURSIVE LinkedTags(_, _, _)
LinkedTags(d, r, tagOrder) ==
  IF tagOrder = <<>> THEN <<>>
  ELSE
    LET t == tagOrder[1]
        rest == LinkedTags(d, r, Tail(tagOrder))
    IN IF \E l \in d.bookmark_tags : l.bookmark_id = r.id /\ l.tag_id = t.id
         THEN <<t.tag>> \o rest
         ELSE rest

\* GROUP_CONCAT(t.tag, ',') over the LEFT JOINs for the bookmark row r: the
\* labels linked to r, joined by commas in the order tagOrder lists the rows
\* of tags; SQL leaves that order open.  A link to no row of tags adds
\* nothing.  <<>> stands for NULL (no label), which the writer treats alike.
GroupConcat(d, r, tagOrder) == Join(LinkedTags(d, r, tagOrder), sComma)

\* The block written for one row.
ExportRow(r, tagsString) ==
  LET tagsEsc == EscapeString(tagsString)
      noteEsc == EscapeString(r.note)
  IN sRowOpen \o sHref \o EscapeString(r.url)
       \o sAddDateAttr \o FormatInt(r.created_at)
       \o sLastModAttr \o FormatInt(r.updated_at) \o sQuote
       \o (IF tagsEsc # <<>> THEN sTagsAttr \o tagsEsc \o sQuote ELSE <<>>)
       \o <<">">> \o EscapeString(r.title) \o sAnchorClose
       \o (IF noteEsc # <<>> THEN sDD \o noteEsc ELSE <<>>)
       \o sNewline

\* The rows of bookmarks by ascending id: the order of GROUP BY b.id.
RECURSIVE RowsById(_)
RowsById(rows) ==
  IF rows = {} THEN <<>>
  ELSE LET r == CHOOSE x \in rows : \A y \in rows : x.id <= y.id
       IN <<r>> \o RowsById(rows \ {r})

\* The query without its GROUP BY: one result row for each label linked to
\* a row of bookmarks, and one for a row of bookmarks without labels.
exportQueryUngrouped(d, tagOrder) ==
  LET rows == RowsById(d.bookmarks)
  IN Concat([k \in 1..Len(rows) |->
               LET linked == LinkedTags(d, rows[k], tagOrder)
               IN IF linked = <<>> THEN <<[row |-> rows[k], tags |-> <<>>]>>
                  ELSE [j \in 1..Len(linked) |->
                          [row |-> rows[k], tags |-> linked[j]]]])

\* The result of the query of exportBookmarks: GROUP BY b.id gives one
\* result row for each row of bookmarks, with its labels concatenated.
exportQuery(d, tagOrder) ==
  LET rows == RowsById(d.bookmarks)
  IN [k \in 1..Len(rows) |->
        [row |-> rows[k], tags |-> GroupConcat(d, rows[k], tagOrder)]]

\* The file exportBookmarks writes for the result rows res.
ExportText(res) ==
  sHeader
    \o Concat([k \in 1..Len(res) |-> ExportRow(res[k].row, res[k].tags)])
    \o sFooter

\* What exportBookmarks prints at its end: that there are no bookmarks, or
\* the count.
exportReport(bookmarkCount) ==
  IF bookmarkCount = 0
    THEN [text |-> "No bookmarks found in database."]
    ELSE [text |-> "Exported %d bookmarks to: %s", count |-> bookmarkCount]

----------------------------------------------------------------------------
(***************************************************************************)
(* The input documents of the model: a preamble, entry blocks each opened  *)
(* by <DT>, and the closing list marker.                                   *)
(***************************************************************************)
sPreamble == <<"<", "H", "1", ">", "B", "o", "o", "k", "m", "a", "r", "k", "s", "<", "/", "H", "1", ">", "\n", "<", "D", "L", ">", "<", "p", ">", "\n">>
sClosing == <<"<", "/", "D", "L", ">", "<", "p", ">", "\n">>
\* <A HREF="u" ADD_DATE="1" LAST_MODIFIED="2" TAGS="a">T</A>
entryA == <<"<", "A", " ", "H", "R", "E", "F", "=", "\"", "u", "\"", " ", "A", "D", "D", "_", "D", "A", "T", "E", "=", "\"", "1", "\"", " ", "L", "A", "S", "T", "_", "M", "O", "D", "I", "F", "I", "E", "D", "=", "\"", "2", "\"", " ", "T", "A", "G", "S", "=", "\"", "a", "\"", ">", "T", "<", "/", "A", ">", "\n">>
\* <A HREF="u" TAGS="b">S</A> <DD>n : the address of entryA, another label
entryB == <<"<", "A", " ", "H", "R", "E", "F", "=", "\"", "u", "\"", " ", "T", "A", "G", "S", "=", "\"", "b", "\"", ">", "S", "<", "/", "A", ">", "\n", "<", "D", "D", ">", "n", "\n">>
\* <A HREF="v" ADD_DATE="3" TAGS="a, b">T</A> : another address, both labels
entryC == <<"<", "A", " ", "H", "R", "E", "F", "=", "\"", "v", "\"", " ", "A", "D", "D", "_", "D", "A", "T", "E", "=", "\"", "3", "\"", " ", "T", "A", "G", "S", "=", "\"", "a", ",", " ", "b", "\"", ">", "T", "<", "/", "A", ">", "\n">>

Entries == {entryA, entryB, entryC}

\* The values time.Now().Unix() takes.
Clock == {9}

\* The text of the document with the entry blocks es.
Document(es) ==
  sPreamble \o Concat([k \in 1..Len(es) |-> sDT \o es[k]]) \o sClosing

SeqsUpTo(S, n) == UNION {[1..k -> S] : k \in 0..n}

\* The documents of at most n entry blocks.
Documents(n) == {Document(es) : es \in SeqsUpTo(Entries, n)}

----------------------------------------------------------------------------
(***************************************************************************)
(* The state.                                                              *)
(***************************************************************************)
VARIABLES
  main,          \* "idle": no import runs; "import": importBookmarks runs;
                 \* "panic": the process died of a run-time panic; the
                 \* message of log.Fatalf when the process ended in it
  db,            \* the store
  blocks,        \* importBookmarks: blocks
  now,           \* parseBlocks: now
  parsed,        \* for each block, the Job the loop of parseBlocks yields
  next,          \* parseBlocks: the index of the block the loop is at
  jobs,          \* the buffer of the channel jobs
  jobsClosed,    \* close(jobs) has run
  results,       \* the buffer of the channel results
  resultsClosed, \* close(results) has run
  workers,       \* the bag of the worker goroutines' local states
  wg,            \* the counter of the WaitGroup
  successCount,  \* importBookmarks: successCount
  reported,      \* the count importBookmarks printed, -1 before it prints
  errLog,        \* the results the coordinator logged as errors
  entriesLeft,   \* entry blocks the behaviour may still read
  faultsLeft,    \* storage failures the behaviour may still suffer
  cands,         \* history: the candidates parseBlocks has sent in this run
  start,         \* history: the tables when this run started
  prev,          \* history: the run before this one
  seen,          \* history: the candidates sent in all the runs so far
  outFile,       \* the file exportBookmarks wrote, <<>> before it runs
  exportCount,   \* exportBookmarks: bookmarkCount at its end, -1 before it runs
  saved          \* history: the tables when exportBookmarks ran

vars == <<main, db, blocks, now, parsed, next, jobs, jobsClosed, results,
          resultsClosed, workers, wg, successCount, reported, errLog,
          entriesLeft, faultsLeft, cands, start, prev, seen, outFile,
          exportCount, saved>>

Tables(d) ==
  [bookmarks |-> d.bookmarks, tags |-> d.tags, bookmark_tags |-> d.bookmark_tags]

\* A worker goroutine: where it is in its loop, and its locals.
Worker(pc, job, bookmarkID, err) ==
  [pc |-> pc, job |-> job, bookmarkID |-> bookmarkID, err |-> err]
IdleWorker == Worker("recv", NoJob, 0, "nil")
DoneWorker == Worker("done", NoJob, 0, "nil")

Replace(bag, old, new) == (bag (-) SetToBag({old})) (+) SetToBag({new})

NoRun == [blocks |-> <<>>, tables |-> Tables(EmptyDB), clean |-> FALSE]

\* The store after initializeDatabase on a new file; no import runs.
Init ==
  /\ main = "idle"
  /\ db = EmptyDB
  /\ blocks = <<>>
  /\ now = 0
  /\ parsed = <<>>
  /\ next = 1
  /\ jobs = <<>>
  /\ jobsClosed = FALSE
  /\ results = <<>>
  /\ resultsClosed = FALSE
  /\ workers = EmptyBag
  /\ wg = 0
  /\ successCount = 0
  /\ reported = -1
  /\ errLog = <<>>
  /\ entriesLeft = MaxEntries
  /\ faultsLeft = MaxFaults
  /\ cands = <<>>
  /\ start = Tables(EmptyDB)
  /\ prev = NoRun
  /\ seen = {}
  /\ outFile = <<>>
  /\ exportCount = -1
  /\ saved = Tables(EmptyDB)

----------------------------------------------------------------------------
(***************************************************************************)
(* importBookmarks up to the result loop: read the file, split it, make    *)
(* the channels, start the workers, the parser and the closer.  The        *)
(* process is new, and so is its connection to the store d.                *)
(***************************************************************************)
StartImport(content, poolSize, t, d) ==
  /\ main' = "import"
  /\ db' = [d EXCEPT !.lastInsertRowid = 0]
  /\ blocks' = Split(content, sDT)
  /\ now' = t
  /\ parsed' = [k \in 1..Len(blocks') |-> parseBlock(blocks'[k], t)]
  /\ next' = 1
  /\ jobs' = <<>>
  /\ jobsClosed' = FALSE
  /\ results' = <<>>
  /\ resultsClosed' = FALSE
  /\ workers' = [w \in {IdleWorker} |-> poolSize]
  /\ wg' = poolSize
  /\ successCount' = 0
  /\ reported' = -1
  /\ errLog' = <<>>
  /\ cands' = <<>>
  /\ start' = Tables(d)
  /\ prev' = IF blocks = <<>> THEN NoRun
             ELSE [blocks |-> blocks, tables |-> Tables(db),
                   clean |-> errLog = <<>>]

\* bmark-importer import <bookmark.html>, on the store as it is.
ImportBookmarks ==
  /\ main = "idle"
  /\ \E content \in Documents(entriesLeft) :
       /\ \E poolSize \in PoolSizes, t \in Clock :
            StartImport(content, poolSize, t, db)
       /\ entriesLeft' = entriesLeft - (Len(blocks') - 1)
  /\ UNCHANGED <<faultsLeft, seen, outFile, exportCount, saved>>

\* One iteration of the loop of parseBlocks; the send blocks while the
\* buffer of jobs is full.
ParseBlocks ==
  /\ main = "import"
  /\ next <= Len(blocks)
  /\ LET job == parsed[next]
     IN IF job.ok
          THEN /\ Len(jobs) < Len(blocks)
               /\ jobs' = Append(jobs, job)
               /\ cands' = Append(cands, job)
               /\ seen' = seen \cup {job}
          ELSE UNCHANGED <<jobs, cands, seen>>
  /\ next' = next + 1
  /\ UNCHANGED <<main, db, blocks, now, parsed, jobsClosed, results,
                 resultsClosed, workers, wg, successCount, reported, errLog,
                 entriesLeft, faultsLeft, start, prev, outFile, exportCount,
                 saved>>

\* close(jobs), once parseBlocks has returned.
CloseJobs ==
  /\ main = "import"
  /\ next = Len(blocks) + 1
  /\ ~jobsClosed
  /\ jobsClosed' = TRUE
  /\ UNCHANGED <<main, db, blocks, now, parsed, next, jobs, results,
                 resultsClosed, workers, wg, successCount, reported, errLog,
                 entriesLeft, faultsLeft, cands, start, prev, seen, outFile,
                 exportCount, saved>>

----------------------------------------------------------------------------
(***************************************************************************)
(* worker.  Each transaction is one step: the store has one connection,    *)
(* which db.Begin waits for and the transaction holds until it commits or  *)
(* rolls back.                                                             *)
(***************************************************************************)
\* The storage failures that may be injected now.
Faults(S) == IF faultsLeft > 0 THEN {NoFault} \cup S ELSE {NoFault}
Charge(fault) == IF fault = NoFault THEN faultsLeft ELSE faultsLeft - 1

\* for job := range jobs: a job is received.
WorkerReceive ==
  /\ main = "import"
  /\ BagIn(IdleWorker, workers)
  /\ jobs # <<>>
  /\ jobs' = Tail(jobs)
  /\ workers' = Replace(workers, IdleWorker,
                        Worker("insertBookmark", Head(jobs), 0, "nil"))
  /\ UNCHANGED <<main, db, blocks, now, parsed, next, jobsClosed, results,
                 resultsClosed, wg, successCount, reported, errLog,
                 entriesLeft, faultsLeft, cands, start, prev, seen, outFile,
                 exportCount, saved>>

\* A worker that returns without wg.Done().
WorkerExitNoDone ==
  /\ main = "import"
  /\ BagIn(IdleWorker, workers)
  /\ jobs = <<>>
  /\ jobsClosed
  /\ workers' = Replace(workers, IdleWorker, DoneWorker)
  /\ UNCHANGED <<main, db, blocks, now, parsed, next, jobs, jobsClosed,
                 results, resultsClosed, wg, successCount, reported, errLog,
                 entriesLeft, faultsLeft, cands, start, prev, seen, outFile,
                 exportCount, saved>>

\* for job := range jobs: jobs is closed and drained; the loop ends and the
\* deferred wg.Done() runs.
WorkerExit ==
  /\ main = "import"
  /\ BagIn(IdleWorker, workers)
  /\ jobs = <<>>
  /\ jobsClosed
  /\ workers' = Replace(workers, IdleWorker, DoneWorker)
  /\ wg' = wg - 1
  /\ UNCHANGED <<main, db, blocks, now, parsed, next, jobs, jobsClosed,
                 results, resultsClosed, successCount, reported, errLog,
                 entriesLeft, faultsLeft, cands, start, prev, seen, outFile,
                 exportCount, saved>>

\* results <- err: the buffer after the send.  The send blocks while the
\* buffer is full.
Sent(err, job) == Append(results, [err |-> err, job |-> job])
CanSend == Len(results) < Len(blocks)

\* bookmarkID, err := insertBookmark(...); on an error the result is sent and
\* the loop continues with the next job.  A send on a closed channel panics.
WorkerInsertBookmark ==
  /\ main = "import"
  /\ \E w \in BagToSet(workers), fault \in Faults(BookmarkFaults) :
       /\ w.pc = "insertBookmark"
       /\ LET r == insertBookmark(db, w.job.URI, w.job.Title, w.job.Note,
                                  w.job.CreatedAt, w.job.UpdatedAt, fault)
          IN /\ db' = r.db
             /\ IF r.err = "nil"
                  THEN /\ workers' = Replace(workers, w,
                            Worker("insertTags", w.job, r.bookmarkID, "nil"))
                       /\ UNCHANGED <<main, results>>
                  ELSE IF resultsClosed
                    THEN /\ main' = "panic"
                         /\ UNCHANGED <<workers, results>>
                    ELSE /\ CanSend
                         /\ results' = Sent("failed to insert bookmark", w.job)
                         /\ workers' = Replace(workers, w, IdleWorker)
                         /\ UNCHANGED main
       /\ faultsLeft' = Charge(fault)
  /\ UNCHANGED <<blocks, now, parsed, next, jobs, jobsClosed, resultsClosed,
                 wg, successCount, reported, errLog, entriesLeft, cands,
                 start, prev, seen, outFile, exportCount, saved>>

\* err := insertTags(db, bookmarkID, job.Tags), and the send of the result:
\* the error, or nil.
WorkerInsertTags ==
  /\ main = "import"
  /\ \E w \in BagToSet(workers) :
       /\ w.pc = "insertTags"
       /\ \E fault \in Faults(TagsFaults(w.job.Tags)) :
            LET r == insertTags(db, w.bookmarkID, w.job.Tags, fault)
            IN /\ db' = r.db
               /\ faultsLeft' = Charge(fault)
               /\ IF resultsClosed
                    THEN /\ main' = "panic"
                         /\ UNCHANGED <<workers, results>>
                    ELSE /\ CanSend
                         /\ results' =
                              Sent(IF r.err # "nil"
                                     THEN "failed to insert tags" ELSE "nil",
                                   w.job)
                         /\ workers' = Replace(workers, w, IdleWorker)
                         /\ UNCHANGED main
  /\ UNCHANGED <<blocks, now, parsed, next, jobs, jobsClosed, resultsClosed,
                 wg, successCount, reported, errLog, entriesLeft, cands,
                 start, prev, seen, outFile, exportCount, saved>>

----------------------------------------------------------------------------
(***************************************************************************)
(* The closer goroutine and the result loop of importBookmarks.            *)
(***************************************************************************)
\* close(results) with no wg.Wait() before it.
CloseResultsEarly ==
  /\ main = "import"
  /\ ~resultsClosed
  /\ resultsClosed' = TRUE
  /\ UNCHANGED <<main, db, blocks, now, parsed, next, jobs, jobsClosed,
                 results, workers, wg, successCount, reported, errLog,
                 entriesLeft, faultsLeft, cands, start, prev, seen, outFile,
                 exportCount, saved>>

\* wg.Wait(); close(results)
CloseResults ==
  /\ main = "import"
  /\ wg = 0
  /\ ~resultsClosed
  /\ resultsClosed' = TRUE
  /\ UNCHANGED <<main, db, blocks, now, parsed, next, jobs, jobsClosed,
                 results, workers, wg, successCount, reported, errLog,
                 entriesLeft, faultsLeft, cands, start, prev, seen, outFile,
                 exportCount, saved>>

\* A result loop that counts every result, the errors too.
ReceiveResultCountAll ==
  /\ main = "import"
  /\ results # <<>>
  /\ results' = Tail(results)
  /\ successCount' = successCount + 1
  /\ errLog' = IF Head(results).err # "nil"
                 THEN Append(errLog, Head(results)) ELSE errLog
  /\ UNCHANGED <<main, db, blocks, now, parsed, next, jobs, jobsClosed,
                 resultsClosed, workers, wg, reported, entriesLeft,
                 faultsLeft, cands, start, prev, seen, outFile, exportCount,
                 saved>>

\* for err := range results: one result is received, logged or counted.
ReceiveResult ==
  /\ main = "import"
  /\ results # <<>>
  /\ results' = Tail(results)
  /\ IF Head(results).err # "nil"
       THEN /\ errLog' = Append(errLog, Head(results))
            /\ UNCHANGED successCount
       ELSE /\ successCount' = successCount + 1
            /\ UNCHANGED errLog
  /\ UNCHANGED <<main, db, blocks, now, parsed, next, jobs, jobsClosed,
                 resultsClosed, workers, wg, reported, entriesLeft,
                 faultsLeft, cands, start, prev, seen, outFile, exportCount,
                 saved>>

\* results is closed and drained: the count is printed and the process ends.
Report ==
  /\ main = "import"
  /\ results = <<>>
  /\ resultsClosed
  /\ reported' = successCount
  /\ main' = "idle"
  /\ UNCHANGED <<db, blocks, now, parsed, next, jobs, jobsClosed, results,
                 resultsClosed, workers, wg, successCount, errLog,
                 entriesLeft, faultsLeft, cands, start, prev, seen, outFile,
                 exportCount, saved>>

Next ==
  \/ ImportBookmarks
  \/ ParseBlocks
  \/ CloseJobs
  \/ WorkerReceive
  \/ WorkerExit
  \/ WorkerInsertBookmark
  \/ WorkerInsertTags
  \/ CloseResults
  \/ ReceiveResult
  \/ Report

Spec == Init /\ [][Next]_vars

----------------------------------------------------------------------------
(***************************************************************************)
(* One import, and the import of the same file once more.                  *)
(***************************************************************************)
\* The first import of the behaviour.
ImportFirst ==
  /\ blocks = <<>>
  /\ ImportBookmarks

\* bmark-importer import <bookmark.html> once more, with the file of the run
\* before, which has not changed and whose import logged no error.
ImportAgain ==
  /\ main = "idle"
  /\ blocks # <<>>
  /\ prev = NoRun
  /\ errLog = <<>>
  /\ \E poolSize \in PoolSizes, t \in Clock :
       StartImport(Join(blocks, sDT), poolSize, t, db)
  /\ UNCHANGED <<entriesLeft, faultsLeft, seen, outFile, exportCount, saved>>

\* The steps of the goroutines of one run of importBookmarks.
Run ==
  \/ ParseBlocks
  \/ CloseJobs
  \/ WorkerReceive
  \/ WorkerExit
  \/ WorkerInsertBookmark
  \/ WorkerInsertTags
  \/ CloseResults
  \/ ReceiveResult
  \/ Report

NextAgain ==
  \/ ImportFirst
  \/ ImportAgain
  \/ Run

AgainSpec == Init /\ [][NextAgain]_vars

----------------------------------------------------------------------------
(***************************************************************************)
(* One import under fair scheduling.  The Go scheduler lets every          *)
(* goroutine that can take a step (the parser, a worker, the closer, the   *)
(* result loop) eventually take one.  While no goroutine steps the state   *)
(* does not change, so a step of Run that stays possible is the step of    *)
(* one goroutine that stays possible, and is eventually taken: the         *)
(* scheduler guarantees weak fairness of Run.                              *)
(***************************************************************************)
\* The only import of the behaviour, with the workerCount workers of the
\* source.
ImportOnce ==
  /\ blocks = <<>>
  /\ ImportBookmarks
  /\ BagCardinality(workers') = workerCount

NextOnce ==
  \/ ImportOnce
  \/ Run

Fairness == WF_vars(Run)

FairSpec == Init /\ [][NextOnce]_vars /\ Fairness

----------------------------------------------------------------------------
(***************************************************************************)
(* Export, and the import of the exported file into a new, empty store.    *)
(***************************************************************************)
\* bmark-importer export: the file is written and the count printed.
ExportBookmarks ==
  /\ main = "idle"
  /\ outFile = <<>>
  /\ \E tagOrder \in Perms(db.tags) :
       LET res == exportQuery(db, tagOrder)
       IN /\ outFile' = ExportText(res)
          /\ exportCount' = Len(res)
  /\ saved' = Tables(db)
  /\ UNCHANGED <<main, db, blocks, now, parsed, next, jobs, jobsClosed,
                 results, resultsClosed, workers, wg, successCount, reported,
                 errLog, entriesLeft, faultsLeft, cands, start, prev, seen>>

\* bmark-importer import <the exported file>, on a store that
\* initializeDatabase has just made.
ImportExported ==
  /\ main = "idle"
  /\ outFile # <<>>
  /\ blocks = <<>>
  /\ \E poolSize \in PoolSizes, t \in Clock :
       StartImport(outFile, poolSize, t, EmptyDB)
  /\ UNCHANGED <<entriesLeft, faultsLeft, seen, outFile, exportCount, saved>>

\* The candidates of the stores the round trip starts from.
Candidate(uri, title, note, createdAt, updatedAt, tagList) ==
  [ok |-> TRUE, URI |-> uri, Title |-> title, Note |-> note,
   CreatedAt |-> createdAt, UpdatedAt |-> updatedAt, Tags |-> tagList]

RoundTripAddresses == {<<"u">>, <<"u", "&", "v">>}
RoundTripTitles ==
  {<<"T">>, <<"a", "<", "b">>, <<"&", "l", "t", ";">>, <<"\"">>, <<"'">>}
RoundTripNotes == {<<>>, <<"n", ">", "&">>}
RoundTripLabels == {<<>>, <<<<"a">>>>, <<<<"a">>, <<"b", "&">>>>}

RoundTripCandidates ==
  {Candidate(u, ti, no, 1, 2, la) :
     u \in RoundTripAddresses, ti \in RoundTripTitles,
     no \in RoundTripNotes, la \in RoundTripLabels}

\* The store that importing the candidates one after the other leaves.
RECURSIVE StoreOf(_, _)
StoreOf(d, candidates) ==
  IF candidates = <<>> THEN d
  ELSE
    LET c == candidates[1]
        b == insertBookmark(d, c.URI, c.Title, c.Note, c.CreatedAt,
                            c.UpdatedAt, NoFault)
        t == insertTags(b.db, b.bookmarkID, c.Tags, NoFault)
    IN StoreOf(t.db, Tail(candidates))

\* A second entry, for the stores of two.
OtherCandidate == Candidate(<<"w">>, <<"W">>, <<>>, 3, 3, <<<<"a">>>>)

RoundTripStores ==
  {EmptyDB}
    \cup {StoreOf(EmptyDB, <<c>>) : c \in RoundTripCandidates}
    \cup {StoreOf(EmptyDB, <<OtherCandidate, c>>) : c \in RoundTripCandidates}

\* A store that imports have filled; no import or export runs.
InitRoundTrip ==
  /\ main = "idle"
  /\ db \in RoundTripStores
  /\ blocks = <<>>
  /\ now = 0
  /\ parsed = <<>>
  /\ next = 1
  /\ jobs = <<>>
  /\ jobsClosed = FALSE
  /\ results = <<>>
  /\ resultsClosed = FALSE
  /\ workers = EmptyBag
  /\ wg = 0
  /\ successCount = 0
  /\ reported = -1
  /\ errLog = <<>>
  /\ entriesLeft = 0
  /\ faultsLeft = 0
  /\ cands = <<>>
  /\ start = Tables(EmptyDB)
  /\ prev = NoRun
  /\ seen = {}
  /\ outFile = <<>>
  /\ exportCount = -1
  /\ saved = Tables(EmptyDB)

NextRoundTrip ==
  \/ ExportBookmarks
  \/ ImportExported
  \/ ParseBlocks
  \/ CloseJobs
  \/ WorkerReceive
  \/ WorkerExit
  \/ WorkerInsertBookmark
  \/ WorkerInsertTags
  \/ CloseResults
  \/ ReceiveResult
  \/ Report

RoundTripSpec == InitRoundTrip /\ [][NextRoundTrip]_vars

----------------------------------------------------------------------------
(***************************************************************************)
(* Input files written block by block: the entry blocks of bookmark files  *)
(* as browsers write them, and blocks that miss a part.  A shape lists the *)
(* parts a block is written from.                                          *)
(***************************************************************************)
sHrefLower == <<"h", "r", "e", "f", "=", "\"">>
sFolder == <<"<", "H", "3", ">", "F", "<", "/", "H", "3", ">", "\n">>
sOverflow == <<"9", "9", "9", "9", "9", "9", "9", "9", "9", "9",
               "9", "9", "9", "9", "9", "9", "9", "9", "9", "9">>

\* An attribute of the anchor tag: absent, or written open value ", where
\* open is the attribute's name, = and the opening quote.
Absent == [present |-> FALSE]
Given(open, value) == [present |-> TRUE, open |-> open, value |-> value]
\* A timestamp attribute whose value is the decimal text of the int64 n.
Stamp(open, value, n) ==
  [present |-> TRUE, open |-> open, value |-> value, parses |-> TRUE, int |-> n]
\* A timestamp attribute whose value is no decimal text of an int64.
BadStamp(open, value) ==
  [present |-> TRUE, open |-> open, value |-> value, parses |-> FALSE]
\* A label attribute and the labels its value lists.
Labelled(value, labels) ==
  [present |-> TRUE, open |-> sTags, value |-> value, labels |-> labels]

AttrText(a) ==
  IF a.present THEN <<" ">> \o a.open \o a.value \o sQuote ELSE <<>>

\* The parts of a block: the name of the anchor tag as written (<<>> for a
\* block without an anchor), and the attributes.
Shape(anchor, href, add, mod, tags) ==
  [anchor |-> anchor, href |-> href, add |-> add, mod |-> mod, tags |-> tags]

\* The text of the block of shape s, after its <DT>: a folder heading, or
\* <A HREF=".." ADD_DATE=".." LAST_MODIFIED=".." TAGS="..">T</A> with the
\* attributes the shape has.
BlockText(s) ==
  IF s.anchor = <<>> THEN sFolder
  ELSE <<"<">> \o s.anchor \o AttrText(s.href) \o AttrText(s.add)
         \o AttrText(s.mod) \o AttrText(s.tags) \o <<">", "T", "<", "/">>
         \o s.anchor \o <<">", "\n">>

\* Blocks with and without an anchor, with and without an address.
HrefShapes ==
  {Shape(<<"A">>, Given(sHref, <<"u">>), Stamp(sAddDate, <<"1">>, 1), Absent, Absent),
   Shape(<<"a">>, Given(sHref, <<"u", "&", "a", "m", "p", ";", "v">>), Absent, Absent, Absent),
   Shape(<<"A">>, Absent, Stamp(sAddDate, <<"1">>, 1), Absent, Absent),
   Shape(<<"A">>, Given(sHrefLower, <<"u">>), Absent, Absent, Absent),
   Shape(<<"A">>, Given(sHref, <<>>), Absent, Absent, Absent),
   Shape(<<>>, Absent, Absent, Absent, Absent)}

\* Blocks with the timestamp attributes absent, decimal, not decimal and
\* beyond int64.
AddDates ==
  {Absent, Stamp(sAddDate, <<"7">>, 7), BadStamp(sAddDate, <<"x">>),
   BadStamp(sAddDate, sOverflow)}
LastMods ==
  {Absent, Stamp(sLastMod, <<"8">>, 8), BadStamp(sLastMod, sOverflow)}
TimeShapes ==
  {Shape(<<"A">>, Given(sHref, <<"u">>), a, m, Absent) :
     a \in AddDates, m \in LastMods}

\* Blocks with the label attribute absent and with label lists.
LabelLists ==
  {Absent,
   Labelled(<<"a">>, <<<<"a">>>>),
   Labelled(<<"a", ",", " ", "b">>, <<<<"a">>, <<"b">>>>),
   Labelled(<<",">>, <<>>),
   Labelled(<<" ", ",", " ">>, <<>>),
   Labelled(<<"a", ",", ",", "b">>, <<<<"a">>, <<"b">>>>)}
LabelShapes ==
  {Shape(<<"A">>, Given(sHref, <<"u">>), Absent, Absent, l) : l \in LabelLists}

ShapeFamilies == {HrefShapes, TimeShapes, LabelShapes}
ParseShapes == UNION ShapeFamilies

\* The text of the document with the blocks of the shapes ss.
ShapedDocument(ss) == Document([k \in 1..Len(ss) |-> BlockText(ss[k])])

\* The documents of at most n blocks of one family.
ShapedDocuments(n) ==
  UNION {{ShapedDocument(ss) : ss \in SeqsUpTo(F, n)} : F \in ShapeFamilies}

\* bmark-importer import <bookmark.html>, once, with such a file, on storage
\* that does not fail.
ImportShaped ==
  /\ main = "idle"
  /\ blocks = <<>>
  /\ \E content \in ShapedDocuments(entriesLeft), t \in Clock :
       StartImport(content, workerCount, t, db)
  /\ entriesLeft' = entriesLeft - (Len(blocks') - 1)
  /\ faultsLeft' = 0
  /\ UNCHANGED <<seen, outFile, exportCount, saved>>

NextShaped ==
  \/ ImportShaped
  \/ Run

ParseSpec == Init /\ [][NextShaped]_vars

\* bmark-importer import <bookmark.html>, once, with a file of blocks with
\* and without an anchor and an address, on storage that may fail.
ImportHrefShaped ==
  /\ main = "idle"
  /\ blocks = <<>>
  /\ \E ss \in SeqsUpTo(HrefShapes, entriesLeft), t \in Clock :
       StartImport(ShapedDocument(ss), workerCount, t, db)
  /\ entriesLeft' = entriesLeft - (Len(blocks') - 1)
  /\ UNCHANGED <<faultsLeft, seen, outFile, exportCount, saved>>

NextHrefShaped ==
  \/ ImportHrefShaped
  \/ Run

DropSpec == Init /\ [][NextHrefShaped]_vars

----------------------------------------------------------------------------
(***************************************************************************)
(* The process from its start: main opens the store, runs                  *)
(* initializeDatabase and then importBookmarks or exportBookmarks.         *)
(* log.Fatalf ends the process; main then holds the message.  The store    *)
(* starts as a new file, and the process is run again and again.           *)
(***************************************************************************)
sInitFailed == "Failed to initialize database"
sReadFailed == "Failed to read bookmarks file"
sQueryFailed == "Failed to query bookmarks for export"
sCreateFailed == "Failed to create output file"

Fatal == {sInitFailed, sReadFailed, sQueryFailed, sCreateFailed}

\* The process is not running: none has started, one has returned from main
\* or one has ended in log.Fatalf.
Exited == {"idle"} \cup Fatal

\* The exit status of the process: log.Fatalf calls os.Exit(1), a run-time
\* panic ends the process with status 2.
exitCode(m) == IF m \in Fatal THEN 1 ELSE IF m = "panic" THEN 2 ELSE 0

\* main that goes on to importBookmarks whatever initializeDatabase returns.
mainImportUnchecked(initErr, readErr) ==
  IF readErr THEN sReadFailed ELSE "import"

\* main in mode import, up to the split of the content: the message of the
\* log.Fatalf it ends in, or "import" when importBookmarks goes on.
mainImport(initErr, readErr) ==
  IF initErr THEN sInitFailed
  ELSE IF readErr THEN sReadFailed
  ELSE "import"

\* main in mode export, up to the header of the file: the message of the
\* log.Fatalf it ends in, or "export" when exportBookmarks goes on.
mainExport(initErr, queryErr, createErr) ==
  IF initErr THEN sInitFailed
  ELSE IF queryErr THEN sQueryFailed
  ELSE IF createErr THEN sCreateFailed
  ELSE "export"

\* The statements of initializeDatabase at which db.Exec may fail: 0 is no
\* failure.
FailPoints ==
  IF faultsLeft > 0
    THEN 0..(Len(schemaTables) + Len(schemaIndexes))
    ELSE {0}

Errs == IF faultsLeft > 0 THEN BOOLEAN ELSE {FALSE}

\* The files the process is run on: of at most n entry blocks, two entries
\* with different addresses and a common label.
SetupDocuments(n) == {Document(es) : es \in SeqsUpTo({entryA, entryC}, n)}

\* The process ends in log.Fatalf(message) with the store d.
Fatalf(message, d) ==
  /\ main' = message
  /\ db' = [d EXCEPT !.lastInsertRowid = 0]
  /\ faultsLeft' = faultsLeft - 1
  /\ UNCHANGED <<blocks, now, parsed, next, jobs, jobsClosed, results,
                 resultsClosed, workers, wg, successCount, reported, errLog,
                 entriesLeft, cands, start, prev, seen, outFile, exportCount,
                 saved>>

MainImport ==
  /\ main \in Exited
  /\ \E failAt \in FailPoints, readErr \in Errs :
       LET init == initializeDatabase(db, failAt)
           outcome == mainImport(init.err, readErr)
       IN IF outcome = "import"
            THEN /\ \E content \in SetupDocuments(entriesLeft), t \in Clock :
                      StartImport(content, workerCount, t, init.db)
                 /\ entriesLeft' = entriesLeft - (Len(blocks') - 1)
                 /\ UNCHANGED <<faultsLeft, seen, outFile, exportCount, saved>>
            ELSE Fatalf(outcome, init.db)

MainExport ==
  /\ main \in Exited
  /\ outFile = <<>>
  /\ \E failAt \in FailPoints, queryErr \in Errs, createErr \in Errs :
       LET init == initializeDatabase(db, failAt)
           outcome == mainExport(init.err, queryErr, createErr)
       IN IF outcome = "export"
            THEN /\ \E tagOrder \in Perms(init.db.tags) :
                      LET res == exportQuery(init.db, tagOrder)
                      IN /\ outFile' = ExportText(res)
                         /\ exportCount' = Len(res)
                 /\ saved' = Tables(init.db)
                 /\ main' = "idle"
                 /\ db' = [init.db EXCEPT !.lastInsertRowid = 0]
                 /\ UNCHANGED <<blocks, now, parsed, next, jobs, jobsClosed,
                                results, resultsClosed, workers, wg,
                                successCount, reported, errLog, entriesLeft,
                                faultsLeft, cands, start, prev, seen>>
            ELSE Fatalf(outcome, init.db)

InitSetup ==
  /\ main = "idle"
  /\ db = NewDB
  /\ blocks = <<>>
  /\ now = 0
  /\ parsed = <<>>
  /\ next = 1
  /\ jobs = <<>>
  /\ jobsClosed = FALSE
  /\ results = <<>>
  /\ resultsClosed = FALSE
  /\ workers = EmptyBag
  /\ wg = 0
  /\ successCount = 0
  /\ reported = -1
  /\ errLog = <<>>
  /\ entriesLeft = MaxEntries
  /\ faultsLeft = MaxFaults
  /\ cands = <<>>
  /\ start = Tables(EmptyDB)
  /\ prev = NoRun
  /\ seen = {}
  /\ outFile = <<>>
  /\ exportCount = -1
  /\ saved = Tables(EmptyDB)

NextSetup ==
  \/ MainImport
  \/ MainExport
  \/ Run

SetupSpec == InitSetup /\ [][NextSetup]_vars

----------------------------------------------------------------------------
(***************************************************************************)
(* The vocabulary of the properties.                                       *)
(***************************************************************************)
\* A run of importBookmarks has printed its count and no other has started.
ImportDone == main = "idle" /\ reported # -1

\* The number of worker goroutines of the run.
PoolSize == BagCardinality(workers)

\* The addresses of the candidates cs.
Addresses(cs) == {cs[k].URI : k \in 1..Len(cs)}

\* The labels of the candidate c; insertTags skips the empty ones.
LabelSet(c) == {c.Tags[k] : k \in 1..Len(c.Tags)} \ {<<>>}

\* The labels the tables t associate with the entry row r.
LabelsOf(t, r) ==
  {x.tag : x \in {y \in t.tags :
                    \E l \in t.bookmark_tags :
                       l.bookmark_id = r.id /\ l.tag_id = y.id}}

\* The (address, title, note, label set, created-at, updated-at) tuples of
\* the tables t.
Tuples(t) ==
  {[address |-> r.url, title |-> r.title, note |-> r.note,
    labels |-> LabelsOf(t, r), created_at |-> r.created_at,
    updated_at |-> r.updated_at] : r \in t.bookmarks}

\* The sequence cs without the first occurrence of x.
Remove(cs, x) ==
  IF \E i \in 1..Len(cs) : cs[i] = x
    THEN LET k == CHOOSE i \in 1..Len(cs) :
                    cs[i] = x /\ \A j \in 1..(i - 1) : cs[j] # x
         IN SubSeq(cs, 1, k - 1) \o SubSeq(cs, k + 1, Len(cs))
    ELSE cs

RECURSIVE Without(_, _)
Without(cs, xs) ==
  IF xs = <<>> THEN cs ELSE Without(Remove(cs, xs[1]), Tail(xs))

\* The candidates of the run that the coordinator did not log as failed.
Succeeded == Without(cands, [k \in 1..Len(errLog) |-> errLog[k].job])

\* The orders of the sequence cs.
Orders(cs) ==
  {[k \in 1..Len(cs) |-> cs[q[k]]] : q \in Perms(1..Len(cs))}

\* The text of the k-th entry block of the file read, were it written from
\* the shape s: the last block runs to the end of the file.
EntryBlock(k, s) ==
  BlockText(s) \o (IF k + 1 = Len(blocks) THEN sClosing ELSE <<>>)

\* The shapes the entry blocks of the file read were written from.
EntryShapes ==
  [k \in 1..(Len(blocks) - 1) |->
     CHOOSE s \in ParseShapes : blocks[k + 1] = EntryBlock(k, s)]

\* The block has an anchor tag with an address attribute: HREF and a value.
HasAddress(s) ==
  /\ s.anchor # <<>>
  /\ s.href.present
  /\ s.href.open = sHref
  /\ s.href.value # <<>>

\* The labels the label attribute of a block of shape s lists.
ShapeLabels(s) == IF s.tags.present THEN s.tags.labels ELSE <<>>

\* The entry blocks that have an anchor tag with an address attribute, by
\* their numbers in the file.
WithAddress(shapes) ==
  SelectSeq([k \in 1..Len(shapes) |-> k], LAMBDA k : HasAddress(shapes[k]))

----------------------------------------------------------------------------
(***************************************************************************)
(* The properties.                                                         *)
(***************************************************************************)
\* C1: when importBookmarks finishes on an initially empty store without a
\* storage error, whatever the pool size and the interleaving, the number of
\* entry rows is the number of distinct addresses among the candidates.
C1_DistinctAddresses ==
  ImportDone /\ start = Tables(EmptyDB) /\ errLog = <<>>
    => Cardinality(db.bookmarks) = Cardinality(Addresses(cands))

\* Two candidates of one address, imported by a pool of two into the empty
\* store without an error.
C1_Witness ==
  /\ ImportDone
  /\ start = Tables(EmptyDB)
  /\ errLog = <<>>
  /\ PoolSize = 2
  /\ Len(cands) = 2
  /\ Cardinality(Addresses(cands)) = 1

\* C2: in every reachable state, also between the steps of the workers, no
\* two entry rows have the same address, no two label rows the same text and
\* no two association rows the same (entry, label) pair.
C2_Unique ==
  /\ \A r1, r2 \in db.bookmarks : r1.url = r2.url => r1 = r2
  /\ \A t1, t2 \in db.tags : t1.tag = t2.tag => t1 = t2
  /\ \A l1, l2 \in db.bookmark_tags :
       l1.bookmark_id = l2.bookmark_id /\ l1.tag_id = l2.tag_id => l1 = l2

\* In the middle of an import, a worker is about to insert the labels of a
\* candidate whose address another candidate's row already holds.
C2_Witness ==
  /\ main = "import"
  /\ \E w \in BagToSet(workers) :
       /\ w.pc = "insertTags"
       /\ \E r \in db.bookmarks : r.url = w.job.URI /\ r.title # w.job.Title
       /\ \E l \in db.bookmark_tags : l.bookmark_id = w.bookmarkID

\* C3: the processing of one candidate is one atomic transaction, so that a
\* candidate reported as failed has left the store unchanged: after a run in
\* which every candidate failed, the tables are those of before the run.
C3_FailedLeavesStoreUnchanged ==
  ImportDone /\ successCount = 0 => Tables(db) = start

\* C4: exportBookmarks and then importBookmarks of the exported file into an
\* empty store reproduces the (address, title, note, label set, created-at,
\* updated-at) tuples of the store, also with & < > " ' in the fields.
C4_RoundTrip ==
  ImportDone /\ outFile # <<>> => Tuples(Tables(db)) = Tuples(saved)

\* C5: importing the same document a second time, after a first import that
\* logged no failure, leaves the store as the first import left it: no entry
\* row and no association row is added.
C5_ReimportChangesNothing ==
  ImportDone /\ prev.blocks = blocks /\ prev.clean => Tables(db) = start

\* The second import of a document of two candidates of one address, with
\* labels, has finished.
C5_Witness ==
  /\ ImportDone
  /\ prev.blocks = blocks
  /\ prev.clean
  /\ Len(cands) = 2
  /\ Cardinality(Addresses(cands)) = 1
  /\ LabelSet(cands[1]) # LabelSet(cands[2])
  /\ Cardinality(db.bookmark_tags) = 2

\* C6: after imports without a storage failure, of one document or of
\* several, each address of a candidate has exactly one entry row, and the
\* labels of that row are the union of the labels of all the candidates of
\* that address.
C6_UnionOfLabels ==
  ImportDone /\ faultsLeft = MaxFaults =>
    \A c \in seen :
      /\ Cardinality({r \in db.bookmarks : r.url = c.URI}) = 1
      /\ \A r \in db.bookmarks :
           r.url = c.URI =>
             LabelsOf(Tables(db), r) =
               UNION {LabelSet(x) : x \in {y \in seen : y.URI = c.URI}}

\* The second of two successive imports has finished; its one candidate has
\* the address of a candidate of the first, and other labels.
C6_Witness ==
  /\ ImportDone
  /\ faultsLeft = MaxFaults
  /\ prev.blocks # <<>>
  /\ Len(cands) = 1
  /\ \E c \in seen : c.URI = cands[1].URI /\ LabelSet(c) # LabelSet(cands[1])

\* C7: a storage failure on one candidate leaves every other candidate the
\* outcome it has when the failing candidate is absent: after a run on the
\* empty store, the tuples of the addresses of the candidates that did not
\* fail are those that importing only these candidates, in some order,
\* leaves.
C7_OthersUnaffected ==
  ImportDone /\ start = Tables(EmptyDB) =>
    {t \in Tuples(Tables(db)) : t.address \in Addresses(Succeeded)} \in
      {Tuples(Tables(StoreOf(EmptyDB, p))) : p \in Orders(Succeeded)}

\* C8, as the specification states it: after an import into the empty store
\* without a storage error, the reported count is the number of entry rows.
C8_CountIsEntryRows ==
  ImportDone /\ start = Tables(EmptyDB) /\ errLog = <<>>
    => reported = Cardinality(db.bookmarks)

\* C8, as the code has it: the reported count is the number of candidates
\* processed without an error; after an import into the empty store without
\* a storage error it is the number of entry rows when the addresses of the
\* candidates are pairwise distinct.
C8_CountIsCandidatesWithoutError ==
  ImportDone =>
    /\ reported = Len(cands) - Len(errLog)
    /\ (/\ start = Tables(EmptyDB)
        /\ errLog = <<>>
        /\ Cardinality(Addresses(cands)) = Len(cands))
         => reported = Cardinality(db.bookmarks)

\* An import of two candidates, one failed and one not, has reported.
C8_Witness ==
  /\ ImportDone
  /\ Len(cands) = 2
  /\ Len(errLog) = 1
  /\ reported = 1

\* C9: under fair scheduling importBookmarks terminates, with or without
\* failures of candidates: the parser's send never finds the buffer of jobs
\* full, and every run that has started reports.
C9_Terminates ==
  /\ [](main = "import" /\ next <= Len(blocks) => Len(jobs) < Len(blocks))
  /\ (main = "import") ~> ImportDone

\* A run of the five workers on two candidates, one of which failed, has
\* reported.
C9_Witness ==
  /\ ImportDone
  /\ PoolSize = workerCount
  /\ Len(cands) = 2
  /\ errLog # <<>>

\* C10: results is never closed while a worker can still send (no send
\* finds it closed), and when the count is reported every block has been
\* parsed, every candidate taken by a worker and every result consumed.
C10_DrainedBeforeReport ==
  /\ main # "panic"
  /\ resultsClosed => \A w \in BagToSet(workers) : w.pc = "done"
  /\ ImportDone =>
       /\ next = Len(blocks) + 1
       /\ jobsClosed
       /\ jobs = <<>>
       /\ results = <<>>
       /\ \A w \in BagToSet(workers) : w.pc = "done"
       /\ successCount + Len(errLog) = Len(cands)

\* Two candidates have gone through a pool of two, one with a failure, and
\* the count is reported.
C10_Witness ==
  /\ ImportDone
  /\ PoolSize = 2
  /\ Len(cands) = 2
  /\ Len(errLog) = 1
  /\ successCount = 1

\* C11: parseBlocks yields exactly one candidate for every block with an
\* anchor tag that has an address attribute, its address the value of the
\* attribute exactly, and none for a block without an anchor or without an
\* address; with the address attribute of one block removed it yields one
\* candidate less, and the other candidates unchanged.
C11_OneCandidatePerAddress ==
  ImportDone =>
    LET shapes == EntryShapes
        kept == WithAddress(shapes)
    IN /\ Len(cands) = Len(kept)
       /\ \A i \in 1..Len(kept) : cands[i].URI = shapes[kept[i]].href.value
       /\ \A i \in 1..Len(kept) :
            LET k == kept[i]
                bare == [shapes[k] EXCEPT !.href = Absent]
                other == parseBlock(EntryBlock(k, bare), now)
            IN Candidates([parsed EXCEPT ![k + 1] = other])
                 = SubSeq(cands, 1, i - 1) \o SubSeq(cands, i + 1, Len(cands))

\* A file of two entry blocks has been imported: one with an address, one
\* whose anchor has none.
C11_Witness ==
  /\ ImportDone
  /\ Len(blocks) = 3
  /\ Len(cands) = 1
  /\ \E k \in 1..2 : HasAddress(EntryShapes[k])
  /\ \E k \in 1..2 :
       EntryShapes[k].anchor # <<>> /\ ~EntryShapes[k].href.present

\* C12: the title exportBookmarks writes uses only the escapes &amp; &lt;
\* &gt; &quot; &#39;, and htmlUnescape gives the original title back when
\* the exported file is imported, also for titles with & < > " ' and with
\* the text of an escape in them.
C12_TitleRoundTrip ==
  ImportDone /\ outFile # <<>> =>
    /\ \A i \in 1..Len(outFile) : ~HasPrefixAt(outFile, i, sNum34)
    /\ {r.title : r \in db.bookmarks} = {r.title : r \in saved.bookmarks}

\* C13: a block the parser drops (no anchor, or no address) produces neither
\* a success nor a failure.  Every candidate the parser has enqueued is in
\* the job queue, with a worker, in the result queue or received as one
\* result; when the run reports, the successes and the failures together are
\* as many as the candidates, which are as many as the blocks with an
\* address.
C13_OneResultPerCandidate ==
  /\ main = "import" \/ ImportDone =>
       Len(cands) = Len(jobs)
                      + BagCardinality(workers)
                      - CopiesIn(IdleWorker, workers)
                      - CopiesIn(DoneWorker, workers)
                      + Len(results) + successCount + Len(errLog)
  /\ ImportDone =>
       /\ successCount + Len(errLog) = Len(cands)
       /\ Len(cands) = Len(WithAddress(EntryShapes))

\* A run has reported one failure and no success for a file of two entry
\* blocks, of which the parser dropped one for its missing address; it
\* dropped the preamble, which has no anchor, too.
C13_Witness ==
  /\ ImportDone
  /\ Len(blocks) = 3
  /\ Len(cands) = 1
  /\ Len(errLog) = 1
  /\ successCount = 0
  /\ \E k \in 1..2 :
       EntryShapes[k].anchor # <<>> /\ ~EntryShapes[k].href.present

\* C14: import never deletes.  No step of an import, successful or failed,
\* removes or changes a row of bookmarks, tags or bookmark_tags: the rows
\* before the step are rows after it.
C14_NeverDeletes ==
  [][/\ db.bookmarks \subseteq db'.bookmarks
     /\ db.tags \subseteq db'.tags
     /\ db.bookmark_tags \subseteq db'.bookmark_tags]_vars

\* An import into a store that held entries, labels and associations has
\* reported; one of its candidates failed and another row was added.
C14_Witness ==
  /\ ImportDone
  /\ start.bookmarks # {}
  /\ start.tags # {}
  /\ start.bookmark_tags # {}
  /\ Len(errLog) = 1
  /\ db.bookmarks # start.bookmarks

\* C15: import never writes a label row with empty or whitespace-only text.
\* In every state each label row has a text that is not empty and has no
\* surrounding whitespace; for every value of the label attribute, also
\* "," and " , " and "a,,b", the candidate carries the labels of the value
\* trimmed, without the empty ones, and after the import exactly these are
\* the label rows and the labels associated with the candidate's entry.
C15_NoEmptyLabel ==
  /\ \A t \in db.tags : t.tag # <<>> /\ TrimSpace(t.tag) = t.tag
  /\ ImportDone =>
       LET shapes == EntryShapes
           kept == WithAddress(shapes)
           labels == [i \in 1..Len(kept) |-> ShapeLabels(shapes[kept[i]])]
       IN /\ \A i \in 1..Len(kept) : cands[i].Tags = labels[i]
          /\ {t.tag : t \in db.tags}
               = UNION {Range(labels[i]) : i \in 1..Len(kept)}
          /\ \A r \in db.bookmarks :
               LabelsOf(Tables(db), r)
                 = UNION {Range(labels[i]) :
                            i \in {j \in 1..Len(kept) : cands[j].URI = r.url}}

\* A file of two entry blocks has been imported, one with the label list
\* "a,,b" and one with " , ": two label rows, and a candidate without labels.
C15_Witness ==
  /\ ImportDone
  /\ Len(cands) = 2
  /\ Cardinality(db.tags) = 2
  /\ \E k \in 1..2 :
       /\ EntryShapes[k].tags.present
       /\ EntryShapes[k].tags.value = <<"a", ",", ",", "b">>
  /\ \E k \in 1..2 :
       /\ EntryShapes[k].tags.present
       /\ EntryShapes[k].tags.value = <<" ", ",", " ">>
       /\ cands[k].Tags = <<>>

\* C16: exportBookmarks writes exactly one entry block for every entry row,
\* also for an entry with several labels or none; the count it reports is
\* the number of entry rows; it reports that there are no bookmarks exactly
\* when the store has no entry row.
C16_OneBlockPerEntry ==
  outFile # <<>> /\ blocks = <<>> =>
    LET written == Split(outFile, sDT)
    IN /\ Len(written) - 1 = Cardinality(saved.bookmarks)
       /\ \A r \in saved.bookmarks :
            Cardinality({k \in 2..Len(written) :
                           HasPrefixAt(written[k], 1,
                                       sAnchorOpen \o <<" ">> \o sHref
                                         \o EscapeString(r.url) \o sQuote)})
              = 1
       /\ exportCount = Cardinality(saved.bookmarks)
       /\ exportReport(exportCount).text = "No bookmarks found in database."
            <=> saved.bookmarks = {}

\* A store of two entries, one with two labels and one with one, has been
\* exported.
C16_Witness ==
  /\ outFile # <<>>
  /\ blocks = <<>>
  /\ Cardinality(saved.bookmarks) = 2
  /\ \E r \in saved.bookmarks : Cardinality(LabelsOf(saved, r)) = 2
  /\ \E r \in saved.bookmarks : Cardinality(LabelsOf(saved, r)) = 1

C18_InitializeIdempotent ==
  /\ [](/\ (main = "import" \/ outFile # <<>> \/ reported # -1)
             => db.schema = EmptyDB.schema
        /\ db.schema = EmptyDB.schema
             => initializeDatabase(db, 0) = [db |-> db, err |-> FALSE]
        /\ \A failAt \in 0..(Len(schemaTables) + Len(schemaIndexes)) :
             Tables(initializeDatabase(db, failAt).db) = Tables(db)
        /\ LET once == initializeDatabase(db, 0).db
           IN initializeDatabase(once, 0) = [db |-> once, err |-> FALSE])
  /\ [][(main \in Exited) =>
          (Tables(db') = Tables(db)
             /\ (db.schema = EmptyDB.schema => db'.schema = db.schema))]_vars

\* The process has started on a store that earlier runs populated: after
\* initializeDatabase, importBookmarks has just started and the rows are
\* those of before.
C18_Witness ==
  /\ main = "import"
  /\ blocks # <<>>
  /\ next = 1
  /\ start.bookmarks # {}
  /\ start.tags # {}
  /\ start.bookmark_tags # {}
  /\ Tables(db) = start

\* C19: a fatal setup failure ends the process at once with a non-zero exit
\* status and without partial work: the step that ends in log.Fatalf starts
\* no worker, parses no block, sends no candidate, writes no row and no
\* file; and when initializeDatabase fails, so that the schema stays
\* incomplete, neither importBookmarks nor exportBookmarks starts.
C19_FatalSetup ==
  [][(main' \in Fatal =>
         (exitCode(main') # 0
            /\ Tables(db') = Tables(db)
            /\ UNCHANGED <<blocks, parsed, next, jobs, results, workers, wg,
                           cands, seen, successCount, reported, outFile,
                           exportCount>>))
       /\ (db'.schema # EmptyDB.schema => main' = sInitFailed)]_vars

\* The process ended because it could not read the input file, on a store
\* that an earlier run populated.
C19_Witness ==
  /\ main = sReadFailed
  /\ exitCode(main) = 1
  /\ db.bookmarks # {}
  /\ db.bookmark_tags # {}
  /\ reported > 0

\* C20: a race of two workers on the same new label or on the same (entry,
\* label) pair never produces an error.  As long as no storage failure has
\* happened: no result is an error and none is logged; a label text has one
\* row; every association points to a row of tags; and when the import
\* finishes all candidates have succeeded and each of them is associated
\* with the one row of each of its labels.
C20_LabelRaceNoError ==
  faultsLeft = MaxFaults =>
    /\ errLog = <<>>
    /\ \A k \in 1..Len(results) : results[k].err = "nil"
    /\ \A t1, t2 \in db.tags : t1.tag = t2.tag => t1 = t2
    /\ \A l \in db.bookmark_tags : \E t \in db.tags : t.id = l.tag_id
    /\ ImportDone =>
         /\ reported = Len(cands)
         /\ \A i \in 1..Len(cands) :
              \A label \in LabelSet(cands[i]) :
                \E b \in db.bookmarks, t \in db.tags :
                  /\ b.url = cands[i].URI
                  /\ t.tag = label
                  /\ \E l \in db.bookmark_tags :
                       l.bookmark_id = b.id /\ l.tag_id = t.id

\* Two workers hold, at the same time, candidates of different addresses
\* with a common label that is not stored yet, each about to run insertTags.
C20_Witness ==
  /\ main = "import"
  /\ faultsLeft = MaxFaults
  /\ \E w1, w2 \in BagToSet(workers) :
       /\ w1.pc = "insertTags"
       /\ w2.pc = "insertTags"
       /\ w1.job.URI # w2.job.URI
       /\ \E label \in LabelSet(w1.job) \cap LabelSet(w2.job) :
            \A t \in db.tags : t.tag # label

\* The title, note and timestamps of the entry row r, and of the candidate c.
RowMetadata(r) ==
  [title |-> r.title, note |-> r.note, created_at |-> r.created_at,
   updated_at |-> r.updated_at]
JobMetadata(c) ==
  [title |-> c.Title, note |-> c.Note, created_at |-> c.CreatedAt,
   updated_at |-> c.UpdatedAt]

\* C21: first writer wins.  No step changes the title, note or timestamps of
\* the entry row of an address; and in every state of an import and after
\* it, each address has one entry row, whose metadata is that of the row of
\* the address from before the import, or else, when there was none, that of
\* one of the candidates of the import with that address.
C21_FirstWriterWins ==
  /\ [](\A r \in db.bookmarks :
          /\ \A q \in db.bookmarks : q.url = r.url => q = r
          /\ IF \E s \in start.bookmarks : s.url = r.url
               THEN \E s \in start.bookmarks :
                      s.url = r.url /\ RowMetadata(s) = RowMetadata(r)
               ELSE \E i \in 1..Len(cands) :
                      cands[i].URI = r.url
                        /\ JobMetadata(cands[i]) = RowMetadata(r))
  /\ [][\A r \in db.bookmarks :
          \E q \in db'.bookmarks :
            q.url = r.url /\ RowMetadata(q) = RowMetadata(r)]_vars

\* An import of two candidates of one address with different titles has
\* finished without an error, and the row has the title of the second.
C21_Witness ==
  /\ ImportDone
  /\ errLog = <<>>
  /\ Len(cands) = 2
  /\ cands[1].URI = cands[2].URI
  /\ cands[1].Title # cands[2].Title
  /\ \A r \in db.bookmarks : r.title = cands[2].Title
  /\ Cardinality(db.bookmarks) = 1

\* The tables t have an entry row of the address of the candidate c and, for
\* each label of c, a label row of that text associated with that entry row.
Stored(t, c) ==
  \E b \in t.bookmarks :
    /\ b.url = c.URI
    /\ \A label \in LabelSet(c) :
         \E x \in t.tags :
           /\ x.tag = label
           /\ \E l \in t.bookmark_tags :
                l.bookmark_id = b.id /\ l.tag_id = x.id

\* C22: whenever a worker sends a nil result for a candidate, the store at
\* that moment has an entry row with the candidate's address and, for every
\* label of the candidate, a label row with that text and an association
\* between that entry and that label; and it still has them while the
\* result waits in the channel.
C22_SuccessMeansStored ==
  /\ [][Len(results') = Len(results) + 1 =>
          LET sent == results'[Len(results')]
          IN sent.err = "nil" => Stored(Tables(db'), sent.job)]_vars
  /\ [](\A k \in 1..Len(results) :
          results[k].err = "nil" => Stored(Tables(db), results[k].job))

\* A worker has reported success for a candidate with two labels while the
\* result of a candidate that a storage failure hit waits in the channel.
C22_Witness ==
  /\ main = "import"
  /\ Len(results) = 2
  /\ results[1].err # "nil"
  /\ results[2].err = "nil"
  /\ Cardinality(LabelSet(results[2].job)) = 2
  /\ Stored(Tables(db), results[2].job)

\* The (address, label text) pairs the tables t associate.
Associations(t) ==
  {p \in {r.url : r \in t.bookmarks} \X {y.tag : y \in t.tags} :
     \E b \in t.bookmarks, x \in t.tags, l \in t.bookmark_tags :
       /\ b.url = p[1]
       /\ x.tag = p[2]
       /\ l.bookmark_id = b.id
       /\ l.tag_id = x.id}

\* C23: the outcome of a failure-free import does not depend on the
\* scheduling as far as addresses and labels go.  Whatever the pool size and
\* the interleaving, the addresses, the label texts and the (address, label
\* text) associations at the end are those of the initial store together
\* with those of the candidates of the document: a function of the document
\* and the initial store alone.
C23_ScheduleIndependent ==
  ImportDone /\ errLog = <<>> =>
    /\ {r.url : r \in db.bookmarks}
         = {r.url : r \in start.bookmarks} \cup Addresses(cands)
    /\ {x.tag : x \in db.tags}
         = {x.tag : x \in start.tags}
             \cup UNION {LabelSet(cands[i]) : i \in 1..Len(cands)}
    /\ Associations(Tables(db))
         = Associations(start)
             \cup UNION {{<<cands[i].URI, label>> :
                            label \in LabelSet(cands[i])} :
                         i \in 1..Len(cands)}

\* Five workers have imported two candidates of different addresses with a
\* common label, without an error, and the row of the second candidate of
\* the document was inserted before the row of the first.
C23_Witness ==
  /\ ImportDone
  /\ errLog = <<>>
  /\ PoolSize = workerCount
  /\ Len(cands) = 2
  /\ LabelSet(cands[1]) \cap LabelSet(cands[2]) # {}
  /\ \E r1, r2 \in db.bookmarks :
       /\ r1.url = cands[1].URI
       /\ r2.url = cands[2].URI
       /\ r2.id < r1.id

\* C24: referential integrity of the associations.  In every state of an
\* import each association row refers to the id of an existing entry row and
\* to the id of an existing label row, and the (address, label text) pair it
\* associates was associated before the import or is an address of a
\* candidate of the import with one of that candidate's labels: no id is
\* stale or foreign.
C24_ReferentialIntegrity ==
  /\ \A l \in db.bookmark_tags :
       /\ Cardinality({b \in db.bookmarks : b.id = l.bookmark_id}) = 1
       /\ Cardinality({x \in db.tags : x.id = l.tag_id}) = 1
  /\ Cardinality(Associations(Tables(db))) = Cardinality(db.bookmark_tags)
  /\ Associations(Tables(db))
       \subseteq Associations(start)
                   \cup UNION {{<<cands[i].URI, label>> :
                                  label \in LabelSet(cands[i])} :
                               i \in 1..Len(cands)}

\* In the middle of an import, before the results are received, two entry
\* rows are associated with the row of a label that the worker of the one
\* inserted and the worker of the other found.
C24_Witness ==
  /\ main = "import"
  /\ Len(results) = 2
  /\ Cardinality(db.bookmarks) = 2
  /\ \E x \in db.tags :
       Cardinality({l \in db.bookmark_tags : l.tag_id = x.id}) = 2

=============================================================================
